---- MODULE Spec2Model ----
(***************************************************************************)
(* IMU_Server (src/imu_server/IMU_server.py): the acquisition loop of      *)
(* start(), the request/response handlers and the in-memory Session        *)
(* (full_dataset), the per-channel cache (last_accel, last_gyro, last_mag)  *)
(* and the durable log (sensor_metrics.json).                              *)
(*                                                                         *)
(* start() calls itself to reconnect, so the control state is a stack of   *)
(* activation frames; each frame holds the locals of one invocation        *)
(* (start_time, led_game_counter) and its position pc.                     *)
(*                                                                         *)
(* The 12 payload bytes of a response are the triple of their three         *)
(* little-endian 32-bit words. A word read as a float (struct.unpack        *)
(* '<fff') is modelled by the integer number of 1/Unit it stands for, a     *)
(* word read as two unsigned shorts ('<6H') by its 32-bit pattern.          *)
(* The metrics are computed in exact arithmetic on fractions; nan is a      *)
(* value of its own.                                                        *)
(***************************************************************************)
EXTENDS Integers, Sequences, FiniteSets, TLC

VARIABLES
    now,            \* time.time(), in seconds
    stack,          \* activation frames of start(), innermost last
    server_socket,  \* self.server_socket: "None" | "listening"
    client_socket,  \* self.client_socket: "None" | "open"
    link,           \* the peer's end of the accepted connection: "none" | "up" |
                    \*   "silent" (sending nothing) | "eof" (closed)
    last_accel,     \* <<last_accel_x, last_accel_y, last_accel_z>>
    last_gyro,      \* <<last_gyro_x, last_gyro_y, last_gyro_z>>
    last_mag,       \* <<last_mag_x, last_mag_y, last_mag_z>>
    full_dataset,   \* self.full_dataset: key -> list
    log_file,       \* the lines of sensor_metrics.json written by this run
    reports,        \* number of reports generated from full_dataset
    technical_metrics,  \* the technical_metrics of the latest report (line 204)
    unhandled,      \* TRUE once an exception has propagated out of start()
    sent,           \* history: the requests put on the wire, [kind, cycle]
    exc,            \* history: the exception most recently raised in a handler
    expect,         \* history: per channel, the cache at the start of the cycle,
                    \*   replaced by the sample decoded from that channel's own response
    failed,         \* history: the channels whose own response, in this cycle, was
                    \*   short, of no known kind, or never came
    rx,             \* history: what the cycle's latest receive_response read after
                    \*   the reserved bytes: <<>> nothing, <<n>> a payload of n < 12
                    \*   bytes, <<12, kind>> a whole payload under kind byte `kind`
    outstanding,    \* history: the requests sent whose receive_response has not
                    \*   returned yet
    decoded,        \* history: per sensor kind, the triples decoded from the
                    \*   responses carrying that kind byte
    listeners,      \* the listening sockets open on (host, port), counted
    tx,             \* history: the bytes put on the wire by send (line 450)
    wire,           \* the bytes the device has sent and recv has not returned yet
    consumed,       \* history: the number of bytes recv has returned
    faults,         \* number of I/O failures and malformed responses so far
    cfg             \* the scenario: [cycles, faults, tick, device]

conn == <<server_socket, client_socket, link>>
cache == <<last_accel, last_gyro, last_mag>>
store == <<full_dataset, log_file, reports, technical_metrics>>
hist == <<sent, exc, expect, failed, rx, outstanding>>
stream == <<wire, consumed>>
net == <<listeners, tx, stream>>

vars == <<now, stack, conn, cache, store, unhandled, hist, decoded, net, faults, cfg>>

----------------------------------------------------------------------------
(* Program constants *)

REQUEST_SIZE == 4
RESPONSE_PAYLOAD_SIZE == 12
REQ_READ_ACCELERATION == 81
REQ_READ_GYROSCOPE == 82
REQ_READ_MAGNETOMETER == 83
REQ_START_LED_GAME == 84
DURATION == 30
LED_GAME_PERIOD == 10

(* Bounds of the model *)

MaxCycles == 2      \* poll cycles of a run of Spec
MaxFaults == 1      \* failures and malformed responses of a run of Spec
WideCycles == 3     \* poll cycles of a run of SpecWide
WideFaults == 2     \* failures and malformed responses of a run of SpecWide
LongCycles == 11    \* poll cycles of a run of SpecLong
LongFaults == 1     \* failures and malformed responses of a run of SpecLong
TimeStep == 15      \* the clock advances in steps of TimeStep seconds
MaxNow == 60        \* no wait for the peer (accept, recv) begins after MaxNow
UnknownKind == 0    \* a response kind byte that is no request kind
E2ECycles == 50     \* poll cycles of a run of SpecE2E
StreamCycles == 2   \* poll cycles of a run of SpecStream
StreamSplits == 1   \* calls of receive_response of a run of SpecStream in which
                    \*   a recv returns fewer bytes than asked for
MetricsLen == 3     \* longest channel of a dataset of SpecMetrics

Unit == 10          \* a float is held as a whole number of 1/Unit

SensorKinds == {REQ_READ_ACCELERATION, REQ_READ_GYROSCOPE, REQ_READ_MAGNETOMETER}
RequestKinds == SensorKinds \cup {REQ_START_LED_GAME}
ResponseKinds == RequestKinds \cup {UnknownKind}

Zero3 == <<0, 0, 0>>

\* The device: the reading in the response to the n-th request on the wire,
\* which differs from every other response's on each axis.
Sample(n) == <<3 * n + 1, 3 * n + 2, 3 * n + 3>>

\* The device: the three words of an LED game result, six unsigned shorts
\* that differ from one another and from every other response's.
GameWords(n) ==
    <<65536 * (6 * n + 2) + 6 * n + 1, 65536 * (6 * n + 4) + 6 * n + 3,
      65536 * (6 * n + 6) + 6 * n + 5>>

\* The device that always answers acceleration (1, 0, 9.8), gyroscope
\* (0, 0, 0), magnetometer (10, 10, 10), in 1/Unit.
Steady(kind) ==
    CASE kind = REQ_READ_ACCELERATION -> <<Unit, 0, (98 * Unit) \div 10>>
      [] kind = REQ_READ_GYROSCOPE -> Zero3
      [] kind = REQ_READ_MAGNETOMETER -> <<10 * Unit, 10 * Unit, 10 * Unit>>

\* The payload of a response of `kind` to the n-th request on the wire.
Payload(kind, n) ==
    CASE kind \notin SensorKinds -> GameWords(n)
      [] kind \in SensorKinds /\ cfg.device = "steady" -> Steady(kind)
      [] kind \in SensorKinds /\ cfg.device /= "steady" -> Sample(n)

AxisKeys == {"acc_x", "acc_y", "acc_z", "gyro_x", "gyro_y", "gyro_z",
             "mag_x", "mag_y", "mag_z"}
DatasetKeys == AxisKeys \cup {"timestamps", "reaction_times"}

----------------------------------------------------------------------------
(* Control state *)

Top == stack[Len(stack)]
TopPc == IF stack = <<>> THEN "done" ELSE Top.pc
SetTop(f) == [stack EXCEPT ![Len(stack)] = f]

SendPcs == {"send_acc", "send_gyro", "send_mag", "send_led"}
RecvPcs == {"recv_acc", "recv_gyro", "recv_mag", "recv_led"}
CyclePcs == SendPcs \cup RecvPcs \cup {"store", "sleep"}

\* The channel of the call at pc.
ChanAt(pc) ==
    CASE pc \in {"send_acc", "recv_acc"} -> "acc"
      [] pc \in {"send_gyro", "recv_gyro"} -> "gyro"
      [] pc \in {"send_mag", "recv_mag"} -> "mag"
      [] pc \in {"send_led", "recv_led"} -> "led"

\* The request kind of the call at pc (lines 335-340, 357-358).
KindAt(pc) ==
    CASE pc \in {"send_acc", "recv_acc"} -> REQ_READ_ACCELERATION
      [] pc \in {"send_gyro", "recv_gyro"} -> REQ_READ_GYROSCOPE
      [] pc \in {"send_mag", "recv_mag"} -> REQ_READ_MAGNETOMETER
      [] pc \in {"send_led", "recv_led"} -> REQ_START_LED_GAME

\* Returned with the three sensor requests sent before the first receive.
ReturnedPipelined(f) ==
    CASE f.pc = "send_acc" -> [f EXCEPT !.pc = "send_gyro"]
      [] f.pc = "send_gyro" -> [f EXCEPT !.pc = "send_mag"]
      [] f.pc = "send_mag" -> [f EXCEPT !.pc = "recv_acc"]
      [] f.pc = "recv_acc" -> [f EXCEPT !.pc = "recv_gyro"]
      [] f.pc = "recv_gyro" -> [f EXCEPT !.pc = "recv_mag"]
      [] f.pc = "recv_mag" -> [f EXCEPT !.pc = "store"]
      [] f.pc = "send_led" -> [f EXCEPT !.pc = "recv_led"]
      [] f.pc = "recv_led" -> [f EXCEPT !.pc = "sleep", !.led_game_counter = 0]

\* The frame once the call at its pc has returned (lines 335-340, 357-359).
Returned(f) ==
    CASE f.pc = "send_acc" -> [f EXCEPT !.pc = "recv_acc"]
      [] f.pc = "recv_acc" -> [f EXCEPT !.pc = "send_gyro"]
      [] f.pc = "send_gyro" -> [f EXCEPT !.pc = "recv_gyro"]
      [] f.pc = "recv_gyro" -> [f EXCEPT !.pc = "send_mag"]
      [] f.pc = "send_mag" -> [f EXCEPT !.pc = "recv_mag"]
      [] f.pc = "recv_mag" -> [f EXCEPT !.pc = "store"]
      [] f.pc = "send_led" -> [f EXCEPT !.pc = "recv_led"]
      [] f.pc = "recv_led" -> [f EXCEPT !.pc = "sleep", !.led_game_counter = 0]

NewFrame == [pc |-> "start", start_time |-> 0, led_game_counter |-> 0]

Cache == [acc |-> last_accel, gyro |-> last_gyro, mag |-> last_mag]

----------------------------------------------------------------------------
(* Numbers: a fraction num/den with den > 0, in lowest terms, or nan *)

RECURSIVE GCD(_, _)
GCD(a, b) == IF b = 0 THEN a ELSE GCD(b, a % b)

Abs(x) == IF x < 0 THEN 0 - x ELSE x

NaN == [num |-> 0, den |-> 0]

IsNaN(a) == a.den = 0

\* n/d for d > 0.
Rat(n, d) ==
    LET g == GCD(Abs(n), d) IN [num |-> n \div g, den |-> d \div g]

\* a + b, a - b, a * k, a / k for an integer k > 0; nan if an operand is nan.
RAdd(a, b) ==
    IF IsNaN(a) \/ IsNaN(b) THEN NaN
    ELSE LET g == GCD(a.den, b.den) IN
         Rat(a.num * (b.den \div g) + b.num * (a.den \div g),
             (a.den \div g) * b.den)

RSub(a, b) == RAdd(a, [num |-> 0 - b.num, den |-> b.den])

RMul(a, k) ==
    IF IsNaN(a) THEN NaN
    ELSE LET g == GCD(k, a.den) IN Rat(a.num * (k \div g), a.den \div g)

RDiv(a, k) ==
    IF IsNaN(a) THEN NaN
    ELSE LET g == GCD(Abs(a.num), k) IN Rat(a.num \div g, a.den * (k \div g))

\* a > b as Python evaluates it: False when an operand is nan.
RGreater(a, b) ==
    /\ ~IsNaN(a)
    /\ ~IsNaN(b)
    /\ a.num * b.den > b.num * a.den

\* max(a, b) with the second argument a nan kept whenever it is not smaller.
py_max_nan(a, b) == IF IsNaN(b) \/ RGreater(b, a) THEN b ELSE a

\* Python's max(a, b): b if b > a, else a.
py_max(a, b) == IF RGreater(b, a) THEN b ELSE a

RECURSIVE SumSeq(_)
SumSeq(xs) == IF xs = <<>> THEN 0 ELSE xs[1] + SumSeq(Tail(xs))

\* np.var(xs): the mean of abs(x - mean(xs)) ** 2; nan for no data.
np_var(xs) ==
    IF xs = <<>> THEN NaN
    ELSE LET n == Len(xs)
             s == SumSeq(xs)
             sq == [i \in 1 .. n |-> (n * xs[i] - s) * (n * xs[i] - s)]
         IN  Rat(SumSeq(sq), n * n * n * Unit * Unit)

\* np.diff(xs): the differences of consecutive elements.
np_diff(xs) ==
    IF Len(xs) <= 1 THEN <<>>
    ELSE [i \in 1 .. Len(xs) - 1 |-> xs[i + 1] - xs[i]]

\* np.mean(np.abs(xs)); nan for no data.
np_mean_abs(xs) ==
    IF xs = <<>> THEN NaN
    ELSE Rat(SumSeq([i \in 1 .. Len(xs) |-> Abs(xs[i])]), Len(xs) * Unit)

----------------------------------------------------------------------------
(* _calculate_technical_metrics(): lines 273-311 *)

\* _calculate_stability_index without the max(0, .) of line 294.
StabilityUnclamped ==
    IF full_dataset["acc_x"] = <<>> THEN Rat(0, 1)
    ELSE LET var_x == np_var(full_dataset["acc_x"])
             var_y == np_var(full_dataset["acc_y"])
             var_z == np_var(full_dataset["acc_z"])
             avg_variance == RDiv(RAdd(RAdd(var_x, var_y), var_z), 3)
         IN  RSub(Rat(100, 1), RMul(avg_variance, 10))

\* Lines 280-295.
_calculate_stability_index ==
    IF full_dataset["acc_x"] = <<>> THEN Rat(0, 1)
    ELSE LET var_x == np_var(full_dataset["acc_x"])
             var_y == np_var(full_dataset["acc_y"])
             var_z == np_var(full_dataset["acc_z"])
             avg_variance == RDiv(RAdd(RAdd(var_x, var_y), var_z), 3)
         IN  py_max(Rat(0, 1), RSub(Rat(100, 1), RMul(avg_variance, 10)))

\* Lines 296-311.
_calculate_movement_efficiency ==
    IF full_dataset["gyro_x"] = <<>> THEN Rat(0, 1)
    ELSE LET jerk_x == np_diff(full_dataset["gyro_x"])
             jerk_y == np_diff(full_dataset["gyro_y"])
             jerk_z == np_diff(full_dataset["gyro_z"])
             avg_jerk == RDiv(RAdd(RAdd(np_mean_abs(jerk_x), np_mean_abs(jerk_y)),
                                   np_mean_abs(jerk_z)), 3)
         IN  py_max(Rat(0, 1), RSub(Rat(100, 1), RMul(avg_jerk, 20)))

\* Lines 273-279.
_calculate_technical_metrics ==
    [stability |-> _calculate_stability_index,
     efficiency |-> _calculate_movement_efficiency,
     reaction |-> Rat(0, 1)]

\* No report has been generated.
NoMetrics == [stability |-> NaN, efficiency |-> NaN, reaction |-> NaN]

----------------------------------------------------------------------------
(* __init__ *)

InitProgram ==
    /\ now = 0
    /\ stack = <<NewFrame>>
    /\ server_socket = "None"
    /\ client_socket = "None"
    /\ link = "none"
    /\ last_accel = Zero3
    /\ last_gyro = Zero3
    /\ last_mag = Zero3
    /\ full_dataset = [k \in DatasetKeys |-> <<>>]
    /\ log_file = <<>>
    /\ reports = 0
    /\ technical_metrics = NoMetrics
    /\ unhandled = FALSE
    /\ sent = <<>>
    /\ exc = "none"
    /\ expect = [acc |-> Zero3, gyro |-> Zero3, mag |-> Zero3]
    /\ failed = {}
    /\ rx = <<>>
    /\ outstanding = 0
    /\ decoded = [kind \in SensorKinds |-> {}]
    /\ listeners = 0
    /\ tx = <<>>
    /\ wire = <<>>
    /\ consumed = 0
    /\ faults = 0

Init ==
    /\ InitProgram
    /\ cfg = [cycles |-> MaxCycles, faults |-> MaxFaults, tick |-> TimeStep,
              device |-> "varying"]

InitWide ==
    /\ InitProgram
    /\ cfg = [cycles |-> WideCycles, faults |-> WideFaults, tick |-> TimeStep,
              device |-> "varying"]

InitLong ==
    /\ InitProgram
    /\ cfg = [cycles |-> LongCycles, faults |-> LongFaults, tick |-> DURATION,
              device |-> "varying"]

\* A run of E2ECycles cycles against the steady device, with no failure.
InitE2E ==
    /\ InitProgram
    /\ cfg = [cycles |-> E2ECycles, faults |-> 0, tick |-> TimeStep,
              device |-> "steady"]

\* The numbers a channel of a dataset of SpecMetrics holds: 0, 2 and 8.
MetricsValues == {0, 2 * Unit, 8 * Unit}

\* A server whose full_dataset holds any n <= MetricsLen records, the
\* gyroscope channels equal to the acceleration channels, with no run of
\* start() in progress.
InitMetrics ==
    /\ now = 0
    /\ stack = <<>>
    /\ server_socket = "None"
    /\ client_socket = "None"
    /\ link = "none"
    /\ last_accel = Zero3
    /\ last_gyro = Zero3
    /\ last_mag = Zero3
    /\ \E n \in 0 .. MetricsLen :
          \E x, y, z \in [1 .. n -> MetricsValues] :
             full_dataset =
                 [k \in DatasetKeys |->
                     CASE k \in {"acc_x", "gyro_x"} -> x
                       [] k \in {"acc_y", "gyro_y"} -> y
                       [] k \in {"acc_z", "gyro_z"} -> z
                       [] k = "reaction_times" -> <<>>
                       [] OTHER -> [i \in 1 .. n |-> 0]]
    /\ log_file = <<>>
    /\ reports = 0
    /\ technical_metrics = NoMetrics
    /\ unhandled = FALSE
    /\ sent = <<>>
    /\ exc = "none"
    /\ expect = [acc |-> Zero3, gyro |-> Zero3, mag |-> Zero3]
    /\ failed = {}
    /\ rx = <<>>
    /\ outstanding = 0
    /\ decoded = [kind \in SensorKinds |-> {}]
    /\ listeners = 0
    /\ tx = <<>>
    /\ wire = <<>>
    /\ consumed = 0
    /\ faults = 0
    /\ cfg = [cycles |-> MetricsLen, faults |-> 0, tick |-> TimeStep,
              device |-> "varying"]

----------------------------------------------------------------------------
(* The clock, read at the granularity of a whole poll cycle: time passes    *)
(* while start() blocks in accept (line 322) or in recv (line 460), for as  *)
(* long as the peer lets it wait, and while it sleeps (line 367).           *)

Tick ==
    /\ \/ TopPc = "accept" /\ now + cfg.tick <= MaxNow
       \/ TopPc \in RecvPcs /\ link = "silent" /\ now + cfg.tick <= MaxNow
       \/ TopPc = "sleep" /\ now - Top.start_time < DURATION
    /\ now' = now + cfg.tick
    /\ UNCHANGED <<stack, conn, cache, store, unhandled, hist, faults, cfg, decoded, net>>

----------------------------------------------------------------------------
(* start(): lines 313-332 *)

\* The listening sockets left open once self.server_socket is rebound at
\* line 315: the socket it held is referenced by nothing else, and the
\* interpreter (CPython, reference counting) closes it as it is released.
Released == IF server_socket = "None" THEN listeners ELSE listeners - 1

\* StartListen with the socket held before left open.
StartListenLeak ==
    /\ TopPc = "start"
    /\ server_socket' = "listening"
    /\ listeners' = listeners + 1
    /\ stack' = SetTop([Top EXCEPT !.pc = "accept"])
    /\ UNCHANGED <<now, client_socket, link, cache, store, unhandled, hist,
                   faults, cfg, decoded, tx, stream>>

\* Lines 315-319: create, bind and listen on the server socket. bind (line
\* 317) succeeds: no other socket listens on the address.
StartListen ==
    /\ TopPc = "start"
    /\ Released = 0
    /\ server_socket' = "listening"
    /\ listeners' = Released + 1
    /\ stack' = SetTop([Top EXCEPT !.pc = "accept"])
    /\ UNCHANGED <<now, client_socket, link, cache, store, unhandled, hist,
                   faults, cfg, decoded, tx, stream>>

\* Accept with the cache set back to the values of __init__ for the new
\* client.
AcceptReset ==
    /\ TopPc = "accept"
    /\ client_socket' = "open"
    /\ link' = "up"
    /\ stack' = SetTop([pc |-> "loop", start_time |-> now, led_game_counter |-> 0])
    /\ last_accel' = Zero3
    /\ last_gyro' = Zero3
    /\ last_mag' = Zero3
    /\ UNCHANGED <<now, server_socket, store, unhandled, hist, faults, cfg, decoded, net>>

\* Lines 322-327: accept a client, then start_time = time.time() and
\* led_game_counter = 0.
Accept ==
    /\ TopPc = "accept"
    /\ client_socket' = "open"
    /\ link' = "up"
    /\ stack' = SetTop([pc |-> "loop", start_time |-> now, led_game_counter |-> 0])
    /\ UNCHANGED <<now, server_socket, cache, store, unhandled, hist, faults, cfg, decoded, net>>

\* Line 330: the loop test.
InWindow == now - Top.start_time < DURATION

\* Lines 330-331 with a client: the cycle begins.
LoopEnter ==
    /\ TopPc = "loop"
    /\ InWindow
    /\ Len(full_dataset["timestamps"]) < cfg.cycles
    /\ client_socket /= "None"
    /\ stack' = SetTop([Top EXCEPT !.pc = "send_acc"])
    /\ expect' = Cache
    /\ failed' = {}
    /\ rx' = <<>>
    /\ UNCHANGED <<now, conn, cache, store, unhandled, sent, exc, outstanding,
                   faults, cfg, decoded, net>>

\* LoopReconnect taken whenever the peer is gone, the client socket closed
\* or not.
LoopReconnectEager ==
    /\ TopPc = "loop"
    /\ InWindow
    /\ Len(full_dataset["timestamps"]) < cfg.cycles
    /\ link /= "up"
    /\ stack' = Append(SetTop([Top EXCEPT !.pc = "send_acc"]), NewFrame)
    /\ UNCHANGED <<now, conn, cache, store, unhandled, hist, faults, cfg, decoded, net>>

\* Lines 331-332 without a client: start() calls itself; the caller resumes
\* at line 335 when the call returns. Each reconnection nests one more
\* activation; the runs modelled stay far below the interpreter's recursion
\* limit.
LoopReconnect ==
    /\ TopPc = "loop"
    /\ InWindow
    /\ Len(full_dataset["timestamps"]) < cfg.cycles
    /\ client_socket = "None"
    /\ stack' = Append(SetTop([Top EXCEPT !.pc = "send_acc"]), NewFrame)
    /\ UNCHANGED <<now, conn, cache, store, unhandled, hist, faults, cfg, decoded, net>>

\* Line 330 false: leave the loop.
LoopExit ==
    /\ TopPc = "loop"
    /\ ~InWindow
    /\ stack' = SetTop([Top EXCEPT !.pc = "report"])
    /\ UNCHANGED <<now, conn, cache, store, unhandled, hist, faults, cfg, decoded, net>>

----------------------------------------------------------------------------
(* handle_disconnection(): lines 491-496 *)

\* handle_disconnection closing the server socket with the client socket.
handle_disconnection_closing ==
    /\ IF client_socket /= "None"
       THEN client_socket' = "None" /\ link' = "none" /\ server_socket' = "None"
       ELSE UNCHANGED <<client_socket, link, server_socket>>

handle_disconnection ==
    /\ IF client_socket /= "None"
       THEN client_socket' = "None" /\ link' = "none"
       ELSE UNCHANGED <<client_socket, link>>
    /\ UNCHANGED server_socket

----------------------------------------------------------------------------
(* send_request(request_type): lines 443-453 *)

\* The poll cycle a request belongs to: the sensor requests precede the
\* cycle's append (lines 335-352), the LED game request follows it (line 357).
CycleOf(kind) ==
    IF kind = REQ_START_LED_GAME
    THEN Len(full_dataset["timestamps"])
    ELSE Len(full_dataset["timestamps"]) + 1

\* Lines 444-445: no client, nothing is sent.
SendSkip ==
    /\ TopPc \in SendPcs
    /\ client_socket = "None"
    /\ stack' = SetTop(Returned(Top))
    /\ UNCHANGED <<now, conn, cache, store, unhandled, hist, faults, cfg, decoded, net>>

\* struct.pack('<B2s', ...): one payload byte short.
pack_B2s(request_type, req_payload) ==
    <<request_type>> \o
    [i \in 1 .. 2 |-> IF i <= Len(req_payload) THEN req_payload[i] ELSE 0]

\* struct.pack('<B3s', request_type, req_payload), line 449: one unsigned
\* byte, then the payload cut or zero-padded to three bytes.
pack_B3s(request_type, req_payload) ==
    <<request_type>> \o
    [i \in 1 .. 3 |-> IF i <= Len(req_payload) THEN req_payload[i] ELSE 0]

\* Lines 447-450: the request goes out, whole (a send of four bytes on a
\* blocking socket).
SendOk ==
    /\ TopPc \in SendPcs
    /\ client_socket /= "None"
    /\ sent' = Append(sent, [kind |-> KindAt(Top.pc), cycle |-> CycleOf(KindAt(Top.pc))])
    /\ tx' = tx \o pack_B3s(KindAt(Top.pc), <<1, 2, 3>>)
    /\ outstanding' = outstanding + 1
    /\ stack' = SetTop(Returned(Top))
    /\ UNCHANGED <<now, conn, cache, store, unhandled, exc, expect, failed, rx,
                   faults, cfg, decoded, listeners, stream>>

\* Lines 450-453: send raises; the error is caught and the client dropped.
\* A send to a peer that has closed may raise without a further fault.
SendRaise ==
    /\ TopPc \in SendPcs
    /\ client_socket /= "None"
    /\ link = "eof" \/ faults < cfg.faults
    /\ faults' = IF link = "eof" THEN faults ELSE faults + 1
    /\ exc' = "send"
    /\ handle_disconnection
    /\ stack' = SetTop(Returned(Top))
    /\ UNCHANGED <<now, cache, store, unhandled, sent, expect, failed, rx,
                   outstanding, cfg, decoded, net>>

send_request == SendSkip \/ SendOk \/ SendRaise

----------------------------------------------------------------------------
(* receive_response(): lines 455-489, with process*() and _log_data() *)

\* struct.unpack('<6H', payload): the six little-endian 16-bit halves of the
\* three 32-bit words.
Unpack6H(p) ==
    <<p[1] % 65536, p[1] \div 65536, p[2] % 65536, p[2] \div 65536,
      p[3] % 65536, p[3] \div 65536>>

\* LogEntry with the "type" strings of lines 396 and 410 exchanged.
LogEntryMistyped(kind, p) ==
    CASE kind = REQ_READ_ACCELERATION ->
           [timestamp |-> now, type |-> "gyroscope", data |-> p]
      [] kind = REQ_READ_GYROSCOPE ->
           [timestamp |-> now, type |-> "acceleration", data |-> p]
      [] kind = REQ_READ_MAGNETOMETER ->
           [timestamp |-> now, type |-> "magnetometer", data |-> p]
      [] kind = REQ_START_LED_GAME ->
           [timestamp |-> now, type |-> "led_game", data |-> Unpack6H(p)]

\* The log entry of lines 394-398, 408-412, 422-426, 431-439.
LogEntry(kind, p) ==
    CASE kind = REQ_READ_ACCELERATION ->
           [timestamp |-> now, type |-> "acceleration", data |-> p]
      [] kind = REQ_READ_GYROSCOPE ->
           [timestamp |-> now, type |-> "gyroscope", data |-> p]
      [] kind = REQ_READ_MAGNETOMETER ->
           [timestamp |-> now, type |-> "magnetometer", data |-> p]
      [] kind = REQ_START_LED_GAME ->
           [timestamp |-> now, type |-> "led_game", data |-> Unpack6H(p)]

\* Stored with processGyroscope leaving last_gyro_z as it was.
StoredPartial(kind, p) ==
    /\ last_accel' = IF kind = REQ_READ_ACCELERATION THEN p ELSE last_accel
    /\ last_gyro' = IF kind = REQ_READ_GYROSCOPE
                    THEN <<p[1], p[2], last_gyro[3]>> ELSE last_gyro
    /\ last_mag' = IF kind = REQ_READ_MAGNETOMETER THEN p ELSE last_mag

\* Lines 390-392, 404-406, 418-420: the cache after a response of `kind`
\* carrying p has been dispatched (lines 470-485).
Stored(kind, p) ==
    /\ last_accel' = IF kind = REQ_READ_ACCELERATION THEN p ELSE last_accel
    /\ last_gyro' = IF kind = REQ_READ_GYROSCOPE THEN p ELSE last_gyro
    /\ last_mag' = IF kind = REQ_READ_MAGNETOMETER THEN p ELSE last_mag

\* History: a sample decoded from the response to the channel's own request.
Decoded(kind, p) ==
    expect' = IF kind /= KindAt(Top.pc) THEN expect
              ELSE CASE kind = REQ_READ_ACCELERATION -> [expect EXCEPT !.acc = p]
                     [] kind = REQ_READ_GYROSCOPE -> [expect EXCEPT !.gyro = p]
                     [] kind = REQ_READ_MAGNETOMETER -> [expect EXCEPT !.mag = p]
                     [] OTHER -> expect

\* History: a triple decoded from a response carrying the kind byte `kind`.
Seen(kind, p) ==
    decoded' = IF kind \in SensorKinds
               THEN [decoded EXCEPT ![kind] = @ \cup {p}]
               ELSE decoded

\* History: the response to the sensor request at pc failed to decode.
Lost ==
    failed' = IF Top.pc = "recv_led" THEN failed ELSE failed \cup {ChanAt(Top.pc)}

\* Lines 456-457: no client.
RecvSkip ==
    /\ TopPc \in RecvPcs
    /\ client_socket = "None"
    /\ Lost
    /\ rx' = <<>>
    /\ outstanding' = 0
    /\ stack' = SetTop(Returned(Top))
    /\ UNCHANGED <<now, conn, cache, store, unhandled, sent, exc, expect,
                   faults, cfg, decoded, net>>

\* Lines 460-466 raise (reset, broken pipe); lines 487-489.
RecvRaise ==
    /\ TopPc \in RecvPcs
    /\ client_socket /= "None"
    /\ link = "up"
    /\ faults < cfg.faults
    /\ faults' = faults + 1
    /\ exc' = "recv"
    /\ Lost
    /\ rx' = <<>>
    /\ outstanding' = 0
    /\ handle_disconnection
    /\ stack' = SetTop(Returned(Top))
    /\ UNCHANGED <<now, cache, store, unhandled, sent, expect, cfg, decoded, net>>

\* Lines 460-462: recv(1) returns no bytes, the peer has closed.
RecvEof ==
    /\ TopPc \in RecvPcs
    /\ client_socket /= "None"
    /\ link = "eof" \/ (link = "up" /\ faults < cfg.faults)
    /\ faults' = IF link = "eof" THEN faults ELSE faults + 1
    /\ link' = "eof"
    /\ Lost
    /\ rx' = <<>>
    /\ outstanding' = 0
    /\ stack' = SetTop(Returned(Top))
    /\ UNCHANGED <<now, server_socket, client_socket, cache, store, unhandled,
                   sent, exc, expect, cfg, decoded, net>>

\* RecvShort closing the connection on a short payload.
RecvShortDrop ==
    /\ TopPc \in RecvPcs
    /\ client_socket /= "None"
    /\ link = "up"
    /\ faults < cfg.faults
    /\ faults' = faults + 1
    /\ \E n \in 0 .. RESPONSE_PAYLOAD_SIZE - 1 : rx' = <<n>>
    /\ outstanding' = 0
    /\ Lost
    /\ handle_disconnection
    /\ stack' = SetTop(Returned(Top))
    /\ UNCHANGED <<now, cache, store, unhandled, sent, exc, expect, cfg, decoded, net>>

\* Lines 460-468: the kind byte and the reserved bytes are read, then recv(12)
\* returns fewer than RESPONSE_PAYLOAD_SIZE bytes (none when the peer has just
\* closed); the call returns.
RecvShort ==
    /\ TopPc \in RecvPcs
    /\ client_socket /= "None"
    /\ link = "up"
    /\ faults < cfg.faults
    /\ faults' = faults + 1
    /\ \E n \in 0 .. RESPONSE_PAYLOAD_SIZE - 1 : rx' = <<n>>
    /\ outstanding' = 0
    /\ Lost
    /\ stack' = SetTop(Returned(Top))
    /\ UNCHANGED <<now, conn, cache, store, unhandled, sent, exc, expect, cfg, decoded, net>>

\* Lines 470-485: a whole frame, dispatched on the kind byte it carries; a
\* kind other than the requested one counts as a fault of the device.
RecvFrame ==
    /\ TopPc \in RecvPcs
    /\ client_socket /= "None"
    /\ link = "up"
    /\ \E kind \in ResponseKinds : \E p \in {Payload(kind, Len(sent))} :
          /\ kind = KindAt(Top.pc) \/ faults < cfg.faults
          /\ faults' = IF kind = KindAt(Top.pc) THEN faults ELSE faults + 1
          /\ Stored(kind, p)
          /\ Decoded(kind, p)
          /\ Seen(kind, p)
          /\ rx' = <<RESPONSE_PAYLOAD_SIZE, kind>>
          /\ outstanding' = 0
          /\ IF kind \in RequestKinds
             THEN log_file' = Append(log_file, LogEntry(kind, p)) /\ failed' = failed
             ELSE log_file' = log_file /\ Lost
    /\ stack' = SetTop(Returned(Top))
    /\ UNCHANGED <<now, conn, full_dataset, reports, technical_metrics,
                   unhandled, sent, exc, cfg, net>>

\* Lines 470-485 with _log_data raising (lines 385-386) on a response of the
\* requested kind: the cache has been set (lines 390-392), nothing is
\* written, and lines 487-489 catch the error.
RecvLogFail ==
    /\ TopPc \in RecvPcs
    /\ client_socket /= "None"
    /\ link = "up"
    /\ faults < cfg.faults
    /\ \E p \in {Payload(KindAt(Top.pc), Len(sent))} :
          /\ Stored(KindAt(Top.pc), p)
          /\ Decoded(KindAt(Top.pc), p)
          /\ Seen(KindAt(Top.pc), p)
    /\ rx' = <<RESPONSE_PAYLOAD_SIZE, KindAt(Top.pc)>>
    /\ outstanding' = 0
    /\ faults' = faults + 1
    /\ exc' = "log"
    /\ handle_disconnection
    /\ stack' = SetTop(Returned(Top))
    /\ UNCHANGED <<now, store, unhandled, sent, failed, cfg, net>>

receive_response ==
    RecvSkip \/ RecvRaise \/ RecvEof \/ RecvShort \/ RecvFrame \/ RecvLogFail

\* Line 460: recv(1) blocks, the socket has no timeout and the device sends
\* nothing.
RecvBlock ==
    /\ TopPc \in RecvPcs
    /\ client_socket /= "None"
    /\ link = "up"
    /\ faults < cfg.faults
    /\ faults' = faults + 1
    /\ link' = "silent"
    /\ UNCHANGED <<now, stack, server_socket, client_socket, cache, store,
                   unhandled, hist, cfg, decoded, net>>

\* The silent device sends again (or closes, or resets): the blocked recv(1)
\* of line 460 is about to return.
DeviceResumes ==
    /\ TopPc \in RecvPcs
    /\ link = "silent"
    /\ link' = "up"
    /\ UNCHANGED <<now, stack, server_socket, client_socket, cache, store,
                   unhandled, hist, faults, cfg, decoded, net>>

----------------------------------------------------------------------------
(* The response stream byte by byte: recv(n) returns between 1 and n of the *)
(* bytes that have arrived, and blocks while there is none.                 *)

\* A 32-bit float by its fields: sign, biased exponent, fraction.
Float32(s, e, f) == [sign |-> s, exp |-> e, frac |-> f]

\* 0.0, -1.0, 9.8, the smallest subnormal, +infinity, a quiet nan and a
\* signalling nan.
FloatSet ==
    {Float32(0, 0, 0), Float32(1, 127, 0), Float32(0, 130, 1887437),
     Float32(0, 0, 1), Float32(0, 255, 0), Float32(0, 255, 4194304),
     Float32(0, 255, 1)}

IsSignalling(v) == v.exp = 255 /\ v.frac /= 0 /\ v.frac < 4194304

\* The device: struct.pack('<f', v), the four bytes of v, lowest first.
pack_f(v) ==
    <<v.frac % 256, (v.frac \div 256) % 256,
      (v.exp % 2) * 128 + v.frac \div 65536, v.sign * 128 + v.exp \div 2>>

\* The device: the payload of a reading, struct.pack('<fff', x, y, z).
pack_fff(r) == pack_f(r[1]) \o pack_f(r[2]) \o pack_f(r[3])

\* The four bytes read as a float, highest byte first.
unpack_f_be(b) ==
    Float32(b[1] \div 128, (b[1] % 128) * 2 + b[2] \div 128,
            (b[2] % 128) * 65536 + b[3] * 256 + b[4])

\* The 32-bit float held in four bytes, lowest byte first.
unpack_f_le(b) ==
    Float32(b[4] \div 128, (b[4] % 128) * 2 + b[3] \div 128,
            (b[3] % 128) * 65536 + b[2] * 256 + b[1])

\* The Python float made of a 32-bit float: the same number; the conversion
\* to double turns a signalling nan into the quiet nan of the same sign and
\* payload (CPython 3.11 on x86-64).
Widened(v) == IF IsSignalling(v) THEN [v EXCEPT !.frac = @ + 4194304] ELSE v

\* struct.unpack('<fff', payload), lines 471, 475, 479.
unpack_fff(p) ==
    <<Widened(unpack_f_le(SubSeq(p, 1, 4))), Widened(unpack_f_le(SubSeq(p, 5, 8))),
      Widened(unpack_f_le(SubSeq(p, 9, 12)))>>

\* struct.unpack('<6H', payload), line 484, on the bytes.
unpack_6H(p) == [i \in 1 .. 6 |-> p[2 * i - 1] + 256 * p[2 * i]]

\* A response frame: the kind byte, three reserved bytes, the payload.
RESPONSE_SIZE == 1 + 3 + RESPONSE_PAYLOAD_SIZE

\* The device: the response to a request of `kind`, carrying cfg.device.
Frame(kind) == <<kind, 0, 0, 0>> \o pack_fff(cfg.device)

\* The number of responses the device has sent.
Answered == (consumed + Len(wire)) \div RESPONSE_SIZE

\* The device answers the oldest request it has not answered yet.
DeviceAnswers ==
    /\ client_socket /= "None"
    /\ link = "up"
    /\ Answered < Len(sent)
    /\ wire' = wire \o Frame(sent[Answered + 1].kind)
    /\ UNCHANGED <<now, stack, conn, cache, store, unhandled, hist, decoded,
                   listeners, tx, consumed, faults, cfg>>

\* Lines 470-485 on the payload bytes: dispatch on the kind byte read.
Dispatched(resp_type, payload) ==
    CASE resp_type \in SensorKinds ->
           /\ Stored(resp_type, unpack_fff(payload))
           /\ Decoded(resp_type, unpack_fff(payload))
           /\ Seen(resp_type, unpack_fff(payload))
           /\ log_file' = Append(log_file, LogEntry(resp_type, unpack_fff(payload)))
           /\ failed' = failed
      [] resp_type = REQ_START_LED_GAME ->
           /\ log_file' = Append(log_file, [timestamp |-> now, type |-> "led_game",
                                            data |-> unpack_6H(payload)])
           /\ UNCHANGED <<cache, expect, decoded, failed>>
      [] OTHER ->
           /\ Lost
           /\ UNCHANGED <<cache, expect, decoded, log_file>>

\* Lines 455-489 on the stream: recv(1) returns the next byte, recv(3) the
\* next k3 bytes, recv(12) the next k12 bytes, as many as had arrived when
\* each was called; a payload of fewer than 12 bytes is dropped (line 468).
\* A recv called when nothing has arrived blocks.
RecvStream ==
    /\ TopPc \in RecvPcs
    /\ client_socket /= "None"
    /\ link = "up"
    /\ \E k3 \in 1 .. 3 : \E k12 \in 1 .. RESPONSE_PAYLOAD_SIZE :
          /\ 1 + k3 + k12 <= Len(wire)
          /\ (k3 = 3 /\ k12 = RESPONSE_PAYLOAD_SIZE) \/ faults < cfg.faults
          /\ faults' = IF k3 = 3 /\ k12 = RESPONSE_PAYLOAD_SIZE
                        THEN faults ELSE faults + 1
          /\ wire' = SubSeq(wire, 2 + k3 + k12, Len(wire))
          /\ consumed' = consumed + 1 + k3 + k12
          /\ IF k12 = RESPONSE_PAYLOAD_SIZE
             THEN /\ rx' = <<RESPONSE_PAYLOAD_SIZE, wire[1]>>
                  /\ Dispatched(wire[1], SubSeq(wire, 2 + k3, 1 + k3 + k12))
             ELSE /\ rx' = <<k12>>
                  /\ Lost
                  /\ UNCHANGED <<cache, expect, decoded, log_file>>
    /\ outstanding' = 0
    /\ stack' = SetTop(Returned(Top))
    /\ UNCHANGED <<now, conn, full_dataset, reports, technical_metrics,
                   unhandled, sent, exc, listeners, tx, cfg>>

----------------------------------------------------------------------------
(* start(): lines 342-381 *)

\* Appended with the sensor lists left alone when the client is gone.
AppendedSkipLost(t) ==
    IF client_socket = "None"
    THEN [full_dataset EXCEPT !["timestamps"] = Append(@, t)]
    ELSE [full_dataset EXCEPT
            !["timestamps"] = Append(@, t),
            !["acc_x"] = Append(@, last_accel[1]),
            !["acc_y"] = Append(@, last_accel[2]),
            !["acc_z"] = Append(@, last_accel[3]),
            !["gyro_x"] = Append(@, last_gyro[1]),
            !["gyro_y"] = Append(@, last_gyro[2]),
            !["gyro_z"] = Append(@, last_gyro[3]),
            !["mag_x"] = Append(@, last_mag[1]),
            !["mag_y"] = Append(@, last_mag[2]),
            !["mag_z"] = Append(@, last_mag[3])]

\* Appended with line 352 appending to mag_y instead of mag_z.
AppendedTypo(t) ==
    [full_dataset EXCEPT
        !["timestamps"] = Append(@, t),
        !["acc_x"] = Append(@, last_accel[1]),
        !["acc_y"] = Append(@, last_accel[2]),
        !["acc_z"] = Append(@, last_accel[3]),
        !["gyro_x"] = Append(@, last_gyro[1]),
        !["gyro_y"] = Append(@, last_gyro[2]),
        !["gyro_z"] = Append(@, last_gyro[3]),
        !["mag_x"] = Append(@, last_mag[1]),
        !["mag_y"] = Append(Append(@, last_mag[2]), last_mag[3])]

\* Lines 343-352: one entry per list.
Appended(t) ==
    [full_dataset EXCEPT
        !["timestamps"] = Append(@, t),
        !["acc_x"] = Append(@, last_accel[1]),
        !["acc_y"] = Append(@, last_accel[2]),
        !["acc_z"] = Append(@, last_accel[3]),
        !["gyro_x"] = Append(@, last_gyro[1]),
        !["gyro_y"] = Append(@, last_gyro[2]),
        !["gyro_z"] = Append(@, last_gyro[3]),
        !["mag_x"] = Append(@, last_mag[1]),
        !["mag_y"] = Append(@, last_mag[2]),
        !["mag_z"] = Append(@, last_mag[3])]

\* StoreData with the LED game due when led_game_counter exceeds ten.
StoreDataLate ==
    /\ TopPc = "store"
    /\ full_dataset' = Appended(now - Top.start_time)
    /\ stack' = SetTop([Top EXCEPT
                   !.led_game_counter = @ + 1,
                   !.pc = IF Top.led_game_counter + 1 > LED_GAME_PERIOD
                          THEN "send_led" ELSE "sleep"])
    /\ UNCHANGED <<now, conn, cache, log_file, reports, technical_metrics,
                   unhandled, hist, faults, cfg, decoded, net>>

\* Lines 343-356: append the record, count the cycle, and decide whether the
\* LED game is due.
StoreData ==
    /\ TopPc = "store"
    /\ full_dataset' = Appended(now - Top.start_time)
    /\ stack' = SetTop([Top EXCEPT
                   !.led_game_counter = @ + 1,
                   !.pc = IF Top.led_game_counter + 1 >= LED_GAME_PERIOD
                          THEN "send_led" ELSE "sleep"])
    /\ UNCHANGED <<now, conn, cache, log_file, reports, technical_metrics,
                   unhandled, hist, faults, cfg, decoded, net>>

\* Line 367: time.sleep(0.1). A run polls cfg.cycles cycles: the sleeps of the
\* cycles beyond them last until the window has closed.
Sleep ==
    /\ TopPc = "sleep"
    /\ Len(full_dataset["timestamps"]) < cfg.cycles \/ ~InWindow
    /\ stack' = SetTop([Top EXCEPT !.pc = "loop"])
    /\ UNCHANGED <<now, conn, cache, store, unhandled, hist, faults, cfg, decoded, net>>

\* Lines 369-381: plots and report from full_dataset when it holds data (the
\* report computes the technical metrics, line 204), close the client
\* socket, return. A caller (line 332) resumes its cycle.
Finalize ==
    /\ TopPc = "report"
    /\ reports' = IF full_dataset["timestamps"] /= <<>> THEN reports + 1 ELSE reports
    /\ technical_metrics' = IF full_dataset["timestamps"] /= <<>>
                            THEN _calculate_technical_metrics
                            ELSE technical_metrics
    /\ client_socket' = "None"
    /\ link' = "none"
    /\ stack' = SubSeq(stack, 1, Len(stack) - 1)
    /\ expect' = Cache
    /\ failed' = {}
    /\ rx' = <<>>
    /\ UNCHANGED <<now, server_socket, cache, full_dataset, log_file, unhandled,
                   sent, exc, outstanding, faults, cfg, decoded, net>>

----------------------------------------------------------------------------

Next ==
    \/ Tick
    \/ StartListen
    \/ Accept
    \/ LoopEnter
    \/ LoopReconnect
    \/ LoopExit
    \/ send_request
    \/ receive_response
    \/ RecvBlock
    \/ DeviceResumes
    \/ StoreData
    \/ Sleep
    \/ Finalize

Spec == Init /\ [][Next]_vars

SpecWide == InitWide /\ [][Next]_vars

SpecLong == InitLong /\ [][Next]_vars

\* A run in which nothing fails: the device answers every request with a
\* whole response of the requested kind (cfg.faults = 0).
NextE2E ==
    \/ Tick
    \/ StartListen
    \/ Accept
    \/ LoopEnter
    \/ LoopExit
    \/ SendOk
    \/ RecvFrame
    \/ StoreData
    \/ Sleep
    \/ Finalize

SpecE2E == InitE2E /\ [][NextE2E]_vars

\* The first cycles of a run against a device that answers every request
\* with a whole frame of the requested kind carrying the reading
\* cfg.device, over a stream that recv may split; the run is followed up
\* to the sleep of its last cycle, the clock standing still.
InitStream ==
    /\ InitProgram
    /\ \E r \in FloatSet \X FloatSet \X FloatSet :
          cfg = [cycles |-> StreamCycles, faults |-> StreamSplits,
                 tick |-> TimeStep, device |-> r]

NextStream ==
    \/ StartListen
    \/ Accept
    \/ LoopEnter
    \/ SendOk
    \/ DeviceAnswers
    \/ RecvStream
    \/ StoreData
    \/ Sleep

SpecStream == InitStream /\ [][NextStream]_vars

\* Lines 273-279 called on the dataset as it is.
CalculateMetrics ==
    /\ technical_metrics = NoMetrics
    /\ technical_metrics' = _calculate_technical_metrics
    /\ UNCHANGED <<now, stack, conn, cache, full_dataset, log_file, reports,
                   unhandled, hist, faults, cfg, decoded, net>>

SpecMetrics == InitMetrics /\ [][CalculateMetrics]_vars

\* The steps start() takes by itself or with a peer that is there: a client
\* connects whenever the server waits in accept, and a device that is not
\* silent lets every send and receive return.
Runs ==
    \/ StartListen
    \/ Accept
    \/ LoopEnter
    \/ LoopReconnect
    \/ LoopExit
    \/ send_request
    \/ receive_response
    \/ StoreData
    \/ Sleep

\* _generate_report returns: start() does not stay at lines 369-381 for ever.
\* Finalize is the only step possible there, so this is its weak fairness,
\* stated on the states.
ReportReturns == []<>(TopPc /= "report")

\* Spec with the clock advancing and start() running whenever it can.
SpecLive ==
    Init /\ [][Next]_vars /\ WF_vars(Tick) /\ WF_vars(Runs) /\ ReportReturns

----------------------------------------------------------------------------
(* Properties *)

Timestamps == full_dataset["timestamps"]

\* The number of requests of `kind` put on the wire.
CountKind(kind) == Cardinality({i \in 1..Len(sent) : sent[i].kind = kind})

\* The record appended last, per channel.
LastStored ==
    [acc |-> <<full_dataset["acc_x"][Len(full_dataset["acc_x"])],
               full_dataset["acc_y"][Len(full_dataset["acc_y"])],
               full_dataset["acc_z"][Len(full_dataset["acc_z"])]>>,
     gyro |-> <<full_dataset["gyro_x"][Len(full_dataset["gyro_x"])],
                full_dataset["gyro_y"][Len(full_dataset["gyro_y"])],
                full_dataset["gyro_z"][Len(full_dataset["gyro_z"])]>>,
     mag |-> <<full_dataset["mag_x"][Len(full_dataset["mag_x"])],
               full_dataset["mag_y"][Len(full_dataset["mag_y"])],
               full_dataset["mag_z"][Len(full_dataset["mag_z"])]>>]

\* C1: at the end of every completed poll cycle (the loop is at its sleep),
\* the nine axis lists and the timestamps list have the same length, whatever
\* failures occurred so far.
C1_EqualLengths ==
    TopPc = "sleep" =>
        \A k \in AxisKeys : Len(full_dataset[k]) = Len(Timestamps)

\* C1 witness: a cycle completed inside a reconnection, after a caught error.
C1_Witness ==
    /\ TopPc = "sleep"
    /\ Len(stack) = 2
    /\ exc /= "none"
    /\ Len(Timestamps) = 2

\* C2: a cycle that has lost its client by the time it reaches line 343
\* appends no record and does not advance led_game_counter (it is to be
\* retried on the new connection).
C2_FailedCycleRetried ==
    [][(TopPc = "store" /\ client_socket = "None") =>
          /\ full_dataset' = full_dataset
          /\ Top'.led_game_counter = Top.led_game_counter]_vars

\* C3: while the client is lost inside the loop, no polling step happens: no
\* request, no append, no change of led_game_counter, no sleep.
C3_SuspendedUntilAccept ==
    [][(TopPc \in CyclePcs /\ client_socket = "None") =>
          /\ sent' = sent
          /\ full_dataset' = full_dataset
          /\ Top'.led_game_counter = Top.led_game_counter
          /\ ~(TopPc = "sleep" /\ TopPc' = "loop")]_vars

\* C4: no exception leaves start(), and whenever the loop test is reached
\* without a client the server goes on to listen and block in accept.
C4_AlwaysWaits ==
    [][/\ ~unhandled'
       /\ (TopPc = "loop" /\ client_socket = "None") => TopPc' = "start"]_vars

\* C5: the timestamps of the Session are non-decreasing in list order.
C5_TimestampsMonotone ==
    \A i, j \in 1..Len(Timestamps) : i <= j => Timestamps[i] <= Timestamps[j]

\* C6: at the end of a cycle, a REQ_START_LED_GAME request has been sent in
\* cycle n exactly for the n that are positive multiples of ten.
C6_LedEveryTenth ==
    TopPc = "sleep" =>
        \A n \in 1..Len(Timestamps) :
            (n % LED_GAME_PERIOD = 0) <=>
            (\E i \in 1..Len(sent) :
                sent[i] = [kind |-> REQ_START_LED_GAME, cycle |-> n])

\* C7: at the end of a cycle, a channel whose own response failed to decode in
\* that cycle has been appended with its cache as of the start of the cycle.
C7_Fallback ==
    TopPc = "sleep" => \A c \in failed : LastStored[c] = expect[c]

\* C8: with no failure and no malformed response so far, after N completed
\* cycles (N requests of each sensor kind sent and answered) every axis list
\* has length N.
C8_LengthIsCycles ==
    (TopPc = "sleep" /\ faults = 0) =>
        /\ \A kind \in SensorKinds : CountKind(kind) = CountKind(REQ_READ_MAGNETOMETER)
        /\ \A k \in AxisKeys : Len(full_dataset[k]) = CountKind(REQ_READ_MAGNETOMETER)

\* C8 witness: two cycles completed without any failure.
C8_Witness ==
    /\ TopPc = "sleep"
    /\ faults = 0
    /\ CountKind(REQ_READ_MAGNETOMETER) = 2
    /\ Len(full_dataset["mag_z"]) = 2

\* C9: the step in which _log_data raises escalates the failure out of the
\* acquisition cycle and leaves the client socket open.
C9_LogFailureEscalated ==
    [][(exc' = "log" /\ faults' /= faults) =>
          (unhandled' /\ client_socket' = "open")]_vars

\* C10: a receive that returns no bytes closes the client socket, and no
\* request is sent on a connection the peer has closed.
C10_PeerCloseIsLoss ==
    [][/\ (link = "up" /\ link' = "eof") => client_socket' = "None"
       /\ link = "eof" => sent' = sent]_vars

\* A step in which a call of receive_response returns.
ReceiveReturns == TopPc \in RecvPcs /\ stack' /= stack

\* C11: a receive_response that reads a payload of fewer than 12 bytes returns
\* without raising, writes no log record, leaves every cache value as it was
\* and keeps the client connection.
C11_ShortPayloadDiscarded ==
    [][(ReceiveReturns /\ Len(rx') = 1) =>
          /\ ~unhandled'
          /\ exc' = exc
          /\ log_file' = log_file
          /\ cache' = cache
          /\ client_socket = "open"
          /\ client_socket' = "open"]_vars

\* C11 witness: the gyroscope response of the first cycle came with 11 payload
\* bytes, after the acceleration sample had been decoded and logged.
C11_Witness ==
    /\ TopPc = "send_mag"
    /\ rx = <<RESPONSE_PAYLOAD_SIZE - 1>>
    /\ last_accel /= Zero3
    /\ last_gyro = Zero3
    /\ Len(log_file) = 1
    /\ client_socket = "open"

\* C12: once a report has been generated from full_dataset (the Session has
\* been finalized), no record is appended to full_dataset.
C12_ReadOnlyAfterReport ==
    [][reports > 0 => full_dataset' = full_dataset]_vars

\* The start of the Session: the start_time of the first accepted connection.
SessionStart == stack[1].start_time

\* C13: no request, sensor or LED game, is sent once DURATION seconds have
\* passed since the start of the Session.
C13_NoRequestAfterBound ==
    [][sent' /= sent => now - SessionStart < DURATION]_vars

\* C14: every run of start() eventually leaves its loop and finalizes: the
\* outermost call returns.
C14_EventuallyFinalized == <>(stack = <<>>)

\* C15: at most one request is outstanding (sent, its receive not yet
\* returned) at any time, and on the wire every gyroscope request follows the
\* acceleration request of its cycle, every magnetometer request the
\* gyroscope request of its cycle, and every acceleration request opens a
\* later cycle than the request before it.
C15_OrderedNoPipelining ==
    /\ outstanding <= 1
    /\ \A i \in 1 .. Len(sent) :
          /\ sent[i].kind = REQ_READ_ACCELERATION =>
                (i = 1 \/ sent[i - 1].cycle < sent[i].cycle)
          /\ sent[i].kind = REQ_READ_GYROSCOPE =>
                (i > 1 /\ sent[i - 1] = [kind |-> REQ_READ_ACCELERATION,
                                         cycle |-> sent[i].cycle])
          /\ sent[i].kind = REQ_READ_MAGNETOMETER =>
                (i > 1 /\ sent[i - 1] = [kind |-> REQ_READ_GYROSCOPE,
                                         cycle |-> sent[i].cycle])

\* C15 witness: the magnetometer request of the second cycle is outstanding.
C15_Witness ==
    /\ TopPc = "recv_mag"
    /\ outstanding = 1
    /\ Len(sent) = 6
    /\ sent[6] = [kind |-> REQ_READ_MAGNETOMETER, cycle |-> 2]

\* A step of receive_response that decodes a whole response of a known kind.
DecodeStep ==
    /\ ReceiveReturns
    /\ Len(rx') = 2
    /\ rx'[2] \in RequestKinds

\* The log grows by exactly one record, of the type and with the data of the
\* response just decoded.
OneRecordAppended ==
    /\ Len(log_file') = Len(log_file) + 1
    /\ SubSeq(log_file', 1, Len(log_file)) = log_file
    /\ LET r == log_file'[Len(log_file')] IN
          CASE rx'[2] = REQ_READ_ACCELERATION ->
                 r.type = "acceleration" /\ r.data = last_accel'
            [] rx'[2] = REQ_READ_GYROSCOPE ->
                 r.type = "gyroscope" /\ r.data = last_gyro'
            [] rx'[2] = REQ_READ_MAGNETOMETER ->
                 r.type = "magnetometer" /\ r.data = last_mag'
            [] rx'[2] = REQ_START_LED_GAME ->
                 r.type = "led_game" /\ Len(r.data) = 6

C17_AcceptOnlyWithoutClient ==
    TopPc \in {"start", "accept"} => client_socket = "None"

\* C17 witness: a second client has been accepted by a nested start(), after
\* the first one was dropped on an error.
C17_Witness ==
    /\ Len(stack) = 2
    /\ TopPc = "loop"
    /\ exc \in {"send", "recv", "log"}
    /\ client_socket = "open"
    /\ link = "up"

\* C18: against the steady device, once E2ECycles (50) cycles are complete
\* every channel holds that many records and one LED game request has been
\* sent per ten cycles (5); the metrics computed on that Session, and those
\* of the report generated from it, are stability 100 and efficiency 100.
C18_EndToEnd ==
    /\ (TopPc = "sleep" /\ Len(Timestamps) = E2ECycles) =>
          /\ \A k \in AxisKeys : Len(full_dataset[k]) = E2ECycles
          /\ CountKind(REQ_START_LED_GAME) = E2ECycles \div LED_GAME_PERIOD
          /\ _calculate_stability_index = [num |-> 100, den |-> 1]
          /\ _calculate_movement_efficiency = [num |-> 100, den |-> 1]
    /\ (stack = <<>> /\ Len(Timestamps) = E2ECycles) =>
          /\ reports = 1
          /\ technical_metrics.stability = [num |-> 100, den |-> 1]
          /\ technical_metrics.efficiency = [num |-> 100, den |-> 1]

\* C18 witness: the run is over; 50 records of (1, 0, 9.8), (0, 0, 0),
\* (10, 10, 10), 5 LED game requests, both metrics 100.
C18_Witness ==
    /\ stack = <<>>
    /\ Len(full_dataset["acc_z"]) = 50
    /\ full_dataset["acc_x"][50] = Unit
    /\ full_dataset["acc_z"][50] * 10 = 98 * Unit
    /\ full_dataset["gyro_y"][50] = 0
    /\ full_dataset["mag_x"][50] = 10 * Unit
    /\ CountKind(REQ_START_LED_GAME) = 5
    /\ technical_metrics.stability.num = 100
    /\ technical_metrics.efficiency.num = 100

\* The variance of a channel as E[x^2] - E[x]^2, times Len^2 * Unit^2.
VarTimes(k) ==
    LET xs == full_dataset[k]
        n == Len(xs)
    IN  n * SumSeq([i \in 1 .. n |-> xs[i] * xs[i]]) - SumSeq(xs) * SumSeq(xs)

\* C19: on a non-empty acceleration dataset the stability index is
\* max(0, 100 - 10 * mean of the three per-axis variances); it lies within
\* [0, 100], is 100 when the three variances are zero and 0 when each of
\* them is 10 or more.
C19_StabilityIndex ==
    (technical_metrics /= NoMetrics /\ full_dataset["acc_x"] /= <<>>) =>
        LET n == Len(full_dataset["acc_x"])
            d == n * n * Unit * Unit
            total == VarTimes("acc_x") + VarTimes("acc_y") + VarTimes("acc_z")
            st == technical_metrics.stability
        IN  /\ st = IF 300 * d - 10 * total >= 0
                    THEN Rat(300 * d - 10 * total, 3 * d)
                    ELSE Rat(0, 1)
            /\ st.den > 0
            /\ 0 <= st.num
            /\ st.num <= 100 * st.den
            /\ total = 0 => st = Rat(100, 1)
            /\ (\A k \in {"acc_x", "acc_y", "acc_z"} : VarTimes(k) >= 10 * d)
                  => st = Rat(0, 1)

\* C19 witness: each axis alternates between 0 and 8 (variance 16), and the
\* index computed is 0.
C19_Witness ==
    /\ full_dataset["acc_x"] = <<0, 8 * Unit>>
    /\ full_dataset["acc_y"] = <<8 * Unit, 0>>
    /\ full_dataset["acc_z"] = <<0, 8 * Unit>>
    /\ technical_metrics.stability = Rat(0, 1)
    /\ technical_metrics.reaction = Rat(0, 1)

\* C20: on an empty acceleration channel the stability index is 0, and on
\* an empty or single-sample gyroscope channel the movement efficiency is 0;
\* both are numbers, nothing fails.
C20_DegenerateInput ==
    technical_metrics /= NoMetrics =>
        /\ full_dataset["acc_x"] = <<>> =>
              technical_metrics.stability = Rat(0, 1)
        /\ Len(full_dataset["gyro_x"]) <= 1 =>
              technical_metrics.efficiency = Rat(0, 1)
        /\ ~IsNaN(technical_metrics.stability)
        /\ ~IsNaN(technical_metrics.efficiency)

\* C20 witness: one gyroscope sample per axis, efficiency 0.
C20_Witness ==
    /\ Len(full_dataset["gyro_x"]) = 1
    /\ Len(full_dataset["gyro_y"]) = 1
    /\ Len(full_dataset["gyro_z"]) = 1
    /\ technical_metrics /= NoMetrics
    /\ technical_metrics.efficiency = Rat(0, 1)

\* C23: the receive that follows the request of a channel leaves the cache of
\* every other channel as it was, whatever the device replies.
C23_OwnChannelOnly ==
    [][(TopPc \in RecvPcs) =>
          (/\ TopPc /= "recv_acc" => last_accel' = last_accel
           /\ TopPc /= "recv_gyro" => last_gyro' = last_gyro
           /\ TopPc /= "recv_mag" => last_mag' = last_mag)]_vars

\* A step in which receive_response decodes a whole response carrying the
\* kind byte `kind`.
DecodesKind(kind) ==
    /\ ReceiveReturns
    /\ rx' = <<RESPONSE_PAYLOAD_SIZE, kind>>

\* C24: the cached value of a channel changes only in a step that decodes a
\* whole response of that channel's kind; no other step (a failed or skipped
\* call, a short or unknown response, handle_disconnection, a new listen or
\* accept, the end of a run of start()) resets or changes it.
C24_CacheNeverReset ==
    [][/\ (last_accel' /= last_accel => DecodesKind(REQ_READ_ACCELERATION))
       /\ (last_gyro' /= last_gyro => DecodesKind(REQ_READ_GYROSCOPE))
       /\ (last_mag' /= last_mag => DecodesKind(REQ_READ_MAGNETOMETER))]_vars

\* C24 witness: the client was dropped on an error and a new one accepted by
\* a nested start(), and the cache still holds the acceleration and gyroscope
\* samples decoded before, the magnetometer's initial zeros.
C24_Witness ==
    /\ Len(stack) = 2
    /\ TopPc = "loop"
    /\ client_socket = "open"
    /\ exc = "recv"
    /\ last_accel = Sample(1)
    /\ last_gyro = Sample(2)
    /\ last_mag = Zero3

\* The connection state read off the server: no server socket yet
\* (Disconnected), a server socket and no client accepted so far (Listening),
\* a client socket (Connected), and no client socket after a client had been
\* accepted (Degraded, which lasts until the next accept).
ConnectionState ==
    CASE client_socket /= "None" -> "Connected"
      [] client_socket = "None" /\ server_socket = "None" -> "Disconnected"
      [] client_socket = "None" /\ server_socket /= "None"
           /\ stack /= <<>> /\ stack[1].pc \in {"start", "accept"} -> "Listening"
      [] OTHER -> "Degraded"

Transitions ==
    {<<"Disconnected", "Listening">>, <<"Listening", "Connected">>,
     <<"Connected", "Degraded">>, <<"Degraded", "Disconnected">>,
     <<"Degraded", "Connected">>}

LedCycles ==
    {sent[i].cycle : i \in {j \in 1 .. Len(sent) : sent[j].kind = REQ_START_LED_GAME}}

\* The latest cycle before n with an LED game request, 0 if there is none.
PrevLed(n) ==
    LET before == {m \in LedCycles : m < n} IN
    IF before = {} THEN 0 ELSE CHOOSE m \in before : \A k \in before : k <= m

\* C27: an LED game request is sent only at the end of the tenth cycle
\* completed since the previous one (since the Session began, for the
\* first), the cycles completed before a reconnection included.
C27_CadenceAcrossReconnection ==
    \A n \in LedCycles : n - PrevLed(n) = LED_GAME_PERIOD

\* The i-th request frame on the wire.
RequestFrame(i) == SubSeq(tx, REQUEST_SIZE * (i - 1) + 1, REQUEST_SIZE * i)

\* C22: what send_request has put on the wire is one frame of REQUEST_SIZE
\* (4) bytes per request, the first byte the request kind and three reserved
\* bytes after it, and the four request kinds have four different
\* identifiers.
C22_RequestFrames ==
    /\ Cardinality(RequestKinds) = 4
    /\ Len(tx) = REQUEST_SIZE * Len(sent)
    /\ \A i \in 1 .. Len(sent) :
          /\ RequestFrame(i)[1] = sent[i].kind
          /\ \A j \in 1 .. REQUEST_SIZE : RequestFrame(i)[j] \in 0 .. 255

\* C22 witness: the ten cycles' thirty sensor requests and the LED game
\* request are on the wire, the LED game request last.
C22_Witness ==
    /\ Len(sent) = 31
    /\ RequestFrame(1) = <<REQ_READ_ACCELERATION, 1, 2, 3>>
    /\ RequestFrame(2) = <<REQ_READ_GYROSCOPE, 1, 2, 3>>
    /\ RequestFrame(3) = <<REQ_READ_MAGNETOMETER, 1, 2, 3>>
    /\ RequestFrame(31) = <<REQ_START_LED_GAME, 1, 2, 3>>

Record(kind, i) ==
    CASE kind = REQ_READ_ACCELERATION ->
           <<full_dataset["acc_x"][i], full_dataset["acc_y"][i],
             full_dataset["acc_z"][i]>>
      [] kind = REQ_READ_GYROSCOPE ->
           <<full_dataset["gyro_x"][i], full_dataset["gyro_y"][i],
             full_dataset["gyro_z"][i]>>
      [] kind = REQ_READ_MAGNETOMETER ->
           <<full_dataset["mag_x"][i], full_dataset["mag_y"][i],
             full_dataset["mag_z"][i]>>

\* C30: every (x, y, z) the Session holds for a channel at one index is the
\* initial (0, 0, 0) or one triple decoded from a single response carrying
\* that channel's kind byte.
C30_WholeTriples ==
    \A kind \in SensorKinds :
       \A i \in 1 .. Len(Timestamps) :
          Record(kind, i) \in decoded[kind] \cup {Zero3}

\* C30 witness: the magnetometer response of the first cycle was lost (its
\* record is the initial value); the second cycle's records are the triples
\* of the fourth and sixth responses.
C30_Witness ==
    /\ Len(Timestamps) = 2
    /\ Record(REQ_READ_MAGNETOMETER, 1) = Zero3
    /\ Record(REQ_READ_ACCELERATION, 1) = Sample(1)
    /\ Record(REQ_READ_ACCELERATION, 2) = Sample(4)
    /\ Record(REQ_READ_MAGNETOMETER, 2) = Sample(6)

\* The cached value of the channel that a kind byte names.
CachedFor(kind) ==
    CASE kind = REQ_READ_ACCELERATION -> last_accel
      [] kind = REQ_READ_GYROSCOPE -> last_gyro
      [] kind = REQ_READ_MAGNETOMETER -> last_mag

\* A step in which receive_response reads one whole frame, from its kind byte
\* to the last byte of its payload.
WholeFrameRead ==
    /\ consumed % RESPONSE_SIZE = 0
    /\ consumed' = consumed + RESPONSE_SIZE

\* C26: whenever receive_response decodes a sample it has read exactly one
\* whole 16-byte frame, starting at a frame boundary, and the sample is the
\* reading that frame carries, however recv splits the stream.
C26_WholeFrameDecoded ==
    [][(\A kind \in SensorKinds :
          DecodesKind(kind) =>
             /\ WholeFrameRead
             /\ CachedFor(kind)' = unpack_fff(pack_fff(cfg.device)))]_vars

\* The quiet nan with the sign and payload of a signalling nan.
Quieted(v) == Float32(v.sign, 255, v.frac + 4194304)

\* C21 as stated: decoding a whole sensor response gives the channel named
\* by its kind byte exactly the three floats the response encodes, in order,
\* and gives the other channels nothing.
C21_RoundTripExact ==
    [][(\A kind \in SensorKinds :
          (DecodesKind(kind) /\ WholeFrameRead) =>
             /\ CachedFor(kind)' = cfg.device
             /\ \A other \in SensorKinds \ {kind} :
                   CachedFor(other)' = CachedFor(other))]_vars

\* C21 amended: decoding a whole sensor response gives the channel named by
\* its kind byte, in order, each encoded float that is not a signalling nan
\* bit for bit, and for a signalling nan the quiet nan of the same sign and
\* payload; the other channels are given nothing.
C21_RoundTripQuieting ==
    [][(\A kind \in SensorKinds :
          (DecodesKind(kind) /\ WholeFrameRead) =>
             /\ \A i \in 1 .. 3 :
                   CachedFor(kind)'[i] = IF IsSignalling(cfg.device[i])
                                         THEN Quieted(cfg.device[i])
                                         ELSE cfg.device[i]
             /\ \A other \in SensorKinds \ {kind} :
                   CachedFor(other)' = CachedFor(other))]_vars

\* C21 witness: the first response, a whole acceleration frame encoding
\* (9.8, -1.0, a signalling nan), has been decoded: x and y are cached bit
\* for bit, z as the quiet nan, and the other channels hold their zeros.
C21_Witness ==
    /\ consumed = RESPONSE_SIZE
    /\ rx = <<RESPONSE_PAYLOAD_SIZE, REQ_READ_ACCELERATION>>
    /\ cfg.device = <<Float32(0, 130, 1887437), Float32(1, 127, 0),
                      Float32(0, 255, 1)>>
    /\ last_accel = <<Float32(0, 130, 1887437), Float32(1, 127, 0),
                      Float32(0, 255, 4194305)>>
    /\ last_gyro = Zero3
    /\ last_mag = Zero3

\* json.dumps of a float with its fraction dropped.
json_dumps_float_whole(v) ==
    [neg |-> v < 0, whole |-> (IF v < 0 THEN -v ELSE v) \div Unit, frac |-> 0]

\* json.dumps of a float: its shortest decimal text that reads back as the
\* same float: the sign, the digits before the point and those after it.
json_dumps_float(v) ==
    [neg |-> v < 0, whole |-> (IF v < 0 THEN -v ELSE v) \div Unit,
     frac |-> (IF v < 0 THEN -v ELSE v) % Unit]

\* json.loads of the decimal text of a float.
json_loads_float(t) == (IF t.neg THEN -1 ELSE 1) * (t.whole * Unit + t.frac)

\* Line 386: json.dumps of a log entry, the text of one line of the file.
json_dumps(entry) ==
    IF entry.type = "led_game" THEN entry
    ELSE [entry EXCEPT !.data = [x |-> json_dumps_float(entry.data[1]),
                                 y |-> json_dumps_float(entry.data[2]),
                                 z |-> json_dumps_float(entry.data[3])]]

\* analyze_sensor_data.py line 22: json.loads of a line.
json_loads(line) ==
    IF line.type = "led_game" THEN line
    ELSE [line EXCEPT !.data = [x |-> json_loads_float(line.data.x),
                                y |-> json_loads_float(line.data.y),
                                z |-> json_loads_float(line.data.z)]]

\* Lines 383-386: the lines of the log file, one per entry logged.
FileLines == [i \in 1 .. Len(log_file) |-> json_dumps(log_file[i])]

\* analyze_sensor_data.py lines 17-23.
load_data(json_file) == [i \in 1 .. Len(json_file) |-> json_loads(json_file[i])]

\* The entries of `data` of one type, in order.
OfType(data, type) == SelectSeq(data, LAMBDA entry : entry.type = type)

\* analyze_sensor_data.py lines 25-49.
process_data(data) ==
    LET acc == OfType(data, "acceleration")
        gyro == OfType(data, "gyroscope")
        mag == OfType(data, "magnetometer")
    IN  [acc_x |-> [i \in 1 .. Len(acc) |-> acc[i].data.x],
         acc_y |-> [i \in 1 .. Len(acc) |-> acc[i].data.y],
         acc_z |-> [i \in 1 .. Len(acc) |-> acc[i].data.z],
         gyro_x |-> [i \in 1 .. Len(gyro) |-> gyro[i].data.x],
         gyro_y |-> [i \in 1 .. Len(gyro) |-> gyro[i].data.y],
         gyro_z |-> [i \in 1 .. Len(gyro) |-> gyro[i].data.z],
         mag_x |-> [i \in 1 .. Len(mag) |-> mag[i].data.x],
         mag_y |-> [i \in 1 .. Len(mag) |-> mag[i].data.y],
         mag_z |-> [i \in 1 .. Len(mag) |-> mag[i].data.z],
         timestamps |-> [i \in 1 .. Len(data) |-> data[i].timestamp]]

====
